---- MODULE Spec2Model ----
(***************************************************************************)
(* A model of app.py: the Flask handler GET /api/tts (synthesize_audio),   *)
(* the get-or-create model cache (get_tts_instance, tts_instances) and the *)
(* WAV assembly.  Requests run as threads of the Flask development server; *)
(* a thread can be pre-empted between any two accesses to shared state, so *)
(* each request is cut into steps at its reads and writes of the cache and *)
(* of the filesystem.  The Piper library and the filesystem are the        *)
(* environment: which files exist, whether a load or a synthesis raises,   *)
(* and which interface the installed library version exposes.             *)
(***************************************************************************)
EXTENDS Integers, Sequences, FiniteSets, TLC

(* ------------------------------ bounds --------------------------------- *)

\* Number of requests the server receives in one run.
MaxRequests == 2

\* Number of model files provisioned while the server runs.
MaxFiles == 1

(* --------------------------- values ------------------------------------ *)

Requests == 1..MaxRequests

\* request.args.get('voice', 'en_GB-alba-medium'): the default voice.
DefaultVoice == "en_GB-alba-medium"

\* Voice identifiers a client may name.
Voices == {DefaultVoice, "en_US-lessac-low"}

\* Python's None, as the value of an absent query parameter.
PyNone == "<None>"

\* Values of the text parameter: a non-empty text and the empty string.
Texts == {"Hello world", ""}

\* possible_paths, by index: 1 = VOICES_DIR, 2 = the directory of app.py,
\* 3 = the current working directory.
possible_paths == <<"voices", "appdir", "cwd">>

Dirs == {possible_paths[i] : i \in 1..Len(possible_paths)}

\* The interface of the installed piper library: a streaming iterator of
\* chunks, one call returning all bytes, or a call writing into a stream.
ApiShapes == {"stream", "whole", "write"}

\* The query strings a client can send: text and voice each present or absent.
RequestArgs ==
    UNION { [D -> Texts \cup Voices] : D \in SUBSET {"text", "voice"} }

WellFormedArgs ==
    { a \in RequestArgs :
        /\ ("text" \in DOMAIN a => a["text"] \in Texts)
        /\ ("voice" \in DOMAIN a => a["voice"] \in Voices) }

\* request.args.get(key, default)
ArgsGet(a, key, default) == IF key \in DOMAIN a THEN a[key] ELSE default

\* `if text is None` in place of `if not text`: an empty text passes.
NotTextNoneOnly(t) == t = PyNone

\* Python truthiness of the text parameter: `not text`.
NotText(t) == t = PyNone \/ t = ""

(* --------------------------- model handles ----------------------------- *)

\* The sample rate the model file of a voice declares in its config.
ConfigSampleRate(v) == IF v = DefaultVoice THEN 22050 ELSE 16000

\* The value get_tts_instance returns when it has no handle.
NoneHandle == [id |-> 0, voice |-> PyNone, sample_rate |-> 0]

\* PiperVoice.load(model_path) by request r: a fresh object, identified by
\* the request that loaded it.
PiperVoiceLoad(r, v) == [id |-> r, voice |-> v, sample_rate |-> ConfigSampleRate(v)]

\* `not tts_instance`
Truthy(h) == h # NoneHandle

\* hasattr(tts_instance, name) for the installed library.
HasAttr(shape, name) ==
    \/ shape = "stream" /\ name = "synthesize_stream"
    \/ shape \in {"whole", "write"} /\ name = "synthesize"

\* Positional parameters synthesize takes after self.
SynthesizeArity(shape) == IF shape = "write" THEN 2 ELSE 1

\* The PCM chunks (sizes in bytes) the engine produces for a text.
PcmChunks(t) == <<4, 2>>

RECURSIVE SumFirst(_, _)
SumFirst(s, k) == IF k = 0 THEN 0 ELSE s[k] + SumFirst(s, k - 1)

(* --------------------------- the cache --------------------------------- *)

\* A membership test on a key the cache never holds (the file name in place
\* of the voice): every lookup misses.
InCacheNever(cache, v) == FALSE

\* `voice not in tts_instances` is ~InCache.
InCache(cache, v) == v \in DOMAIN cache

\* tts_instances.setdefault(voice, h) in place of the assignment: the first
\* handle stored for a voice stays.
CacheStoreFirstWins(cache, v, h) ==
    [x \in DOMAIN cache \cup {v} |-> IF x \in DOMAIN cache THEN cache[x] ELSE h]

\* tts_instances[voice] = h
CacheStore(cache, v, h) ==
    [x \in DOMAIN cache \cup {v} |-> IF x = v THEN h ELSE cache[x]]

\* tts_instances[voice], on a key the dict holds
CacheRead(cache, v) == cache[v]

\* An except clause that drops the voice's entry: tts_instances.pop(voice, None).
LoadFailedEvicts(cache, v) == [x \in DOMAIN cache \ {v} |-> cache[x]]

\* An except clause that remembers the failure: tts_instances[voice] = None.
LoadFailedRemembers(cache, v) ==
    [x \in DOMAIN cache \cup {v} |-> IF x = v THEN NoneHandle ELSE cache[x]]

\* Lines 51-53, the except clause of get_tts_instance: it logs and returns
\* None, and leaves the cache as it is.
LoadFailed(cache, v) == cache

(* --------------------------- exceptions -------------------------------- *)

\* The try of synthesize_audio closed after the synthesis (body 79-101): the
\* WAV assembly is outside it.
ExceptClauseNarrow(line) ==
    IF line \in 32..50 THEN "return_none"
    ELSE IF line \in 79..101 THEN "json_500"
    ELSE "uncaught"

\* Where an exception raised at a source line ends: in the except clause of
\* get_tts_instance (try at 31, body 32-50), in the except clause of
\* synthesize_audio (try at 78, body 79-118), or nowhere.
ExceptClause(line) ==
    IF line \in 32..50 THEN "return_none"
    ELSE IF line \in 79..118 THEN "json_500"
    ELSE "uncaught"

(* --------------------------- responses --------------------------------- *)

NoWav == [riff |-> "", wave |-> "", fmt |-> "", nchannels |-> 0, bits_per_sample |-> 0,
          framerate |-> 0, byte_rate |-> 0, block_align |-> 0, nframes |-> 0,
          data_bytes |-> 0]

NoResponse == [status |-> 0, mimetype |-> "", as_attachment |-> FALSE,
               download_name |-> "", error |-> <<>>, wav |-> NoWav]

\* jsonify({"error": msg}), status.  msg is the message's fixed part followed
\* by the values its f-string interpolates.
JsonError(status, msg) ==
    [status |-> status, mimetype |-> "application/json", as_attachment |-> FALSE,
     download_name |-> "", error |-> msg, wav |-> NoWav]

\* What Flask answers when an exception leaves the view function.
UncaughtError ==
    [status |-> 500, mimetype |-> "text/html", as_attachment |-> FALSE,
     download_name |-> "", error |-> <<>>, wav |-> NoWav]

\* wave.open(wav_io, 'wb') with setnchannels, setsampwidth, setframerate
\* and writeframes(audio_data): the header fields the wave module derives.
WaveWrite(nchannels, sampwidth, framerate, nbytes) ==
    [riff |-> "RIFF", wave |-> "WAVE", fmt |-> "fmt ",
     nchannels |-> nchannels,
     bits_per_sample |-> sampwidth * 8,
     framerate |-> framerate,
     byte_rate |-> nchannels * framerate * sampwidth,
     block_align |-> nchannels * sampwidth,
     nframes |-> nbytes \div (nchannels * sampwidth),
     data_bytes |-> nbytes]

\* send_file(wav_io, mimetype='audio/wav', as_attachment=True,
\*           download_name='output.wav')
SendFile(wav) ==
    [status |-> 200, mimetype |-> "audio/wav", as_attachment |-> TRUE,
     download_name |-> "output.wav", error |-> <<>>, wav |-> wav]

(* --------------------------- synthesis --------------------------------- *)

\* Lines 80-101: the capability probing and the call it selects.  k is the
\* number of chunks the engine delivers before it fails (all of them when it
\* does not fail).  The result names the exception raised and its line, or
\* the audio_data collected.
Synthesis(shape, t, k) ==
    LET chunks == PcmChunks(t)
        n == Len(chunks)
    IN  IF HasAttr(shape, "synthesize_stream")
        THEN \* for audio_bytes in tts_instance.synthesize_stream(text)
             IF k < n
             THEN [exc |-> "EngineError", line |-> 84, audio_data |-> SumFirst(chunks, k)]
             ELSE [exc |-> "", line |-> 84, audio_data |-> SumFirst(chunks, n)]
        ELSE IF HasAttr(shape, "synthesize")
        THEN \* audio_data = tts_instance.synthesize(text)
             IF SynthesizeArity(shape) # 1
             THEN [exc |-> "TypeError", line |-> 89, audio_data |-> 0]
             ELSE IF k < n
             THEN [exc |-> "EngineError", line |-> 89, audio_data |-> 0]
             ELSE [exc |-> "", line |-> 89, audio_data |-> SumFirst(chunks, n)]
        ELSE \* tts_instance.synthesize(text, wav_io) on a handle that has no
             \* attribute synthesize
             [exc |-> "AttributeError", line |-> 94, audio_data |-> 0]

\* Line 76 answering 404 for a voice that could not be loaded.
CouldNotLoad404(v) == JsonError(404, <<"Could not load voice model for ", v>>)

\* Line 76: the answer when get_tts_instance returned None.
CouldNotLoad(v) == JsonError(500, <<"Could not load voice model for ", v>>)

\* An exception raised at a line of synthesize_audio.
HandlerRaise(line, exc) ==
    IF ExceptClause(line) = "json_500"
    THEN JsonError(500, <<"Failed to synthesize audio: ", exc>>)
    ELSE UncaughtError

\* Lines 75-122: the handler from the return of get_tts_instance on.  fault
\* names an exception of the WAV writer, if any.
HandlerTail(shape, t, v, inst, k, fault) ==
    IF ~Truthy(inst)
    THEN CouldNotLoad(v)
    ELSE LET s == Synthesis(shape, t, k)
         IN  IF s.exc # "" THEN HandlerRaise(s.line, s.exc)
             ELSE IF fault = "wave" THEN HandlerRaise(109, "wave.Error")
             ELSE SendFile(WaveWrite(1, 2, inst.sample_rate, s.audio_data))

(* --------------------------- state ------------------------------------- *)

VARIABLES
    api,            \* the interface of the installed piper library
    fs,             \* fs[v]: the candidate directories holding <v>.onnx
    tts_instances,  \* the cache: voice -> handle, a dict
    writeLog,       \* history: per voice, the ids of the handles stored, in order
    req,            \* req[r]: the position and the local variables of request r
    sent            \* the exchange the last step completed, if it completed
                    \* one: a request, the values of its locals when its
                    \* handler returned, and its response

vars == <<api, fs, tts_instances, writeLog, req, sent>>

\* A request that has not arrived.  Its fields: pc, the position; text, voice
\* and tts_instance, the locals of synthesize_audio; probe (the index of the
\* next path to probe) and model_path, the locals of get_tts_instance; and two
\* histories: cachedAtStart, the voice was cached when the request arrived,
\* and noFile, the request missed the cache and from then to the end of its
\* probing the voice's file was in no candidate directory.
IdleRequest ==
    [pc |-> "idle", text |-> PyNone, voice |-> PyNone, probe |-> 0,
     model_path |-> PyNone, tts_instance |-> NoneHandle,
     cachedAtStart |-> FALSE, noFile |-> FALSE]

\* A request whose handler has returned: its locals are gone.
DoneRequest == [IdleRequest EXCEPT !.pc = "done"]

NoExchange ==
    [id |-> 0, text |-> PyNone, voice |-> PyNone, tts_instance |-> NoneHandle,
     cachedAtStart |-> FALSE, noFile |-> FALSE, response |-> NoResponse]

\* Request r, whose locals are q when its handler returns, is answered resp.
Exchange(r, q, resp) ==
    [id |-> r, text |-> q.text, voice |-> q.voice, tts_instance |-> q.tts_instance,
     cachedAtStart |-> q.cachedAtStart, noFile |-> q.noFile, response |-> resp]

EmptyDict == [x \in {} |-> NoneHandle]

RECURSIVE FileCount(_, _)
FileCount(f, vs) ==
    IF vs = {} THEN 0
    ELSE LET v == CHOOSE x \in vs : TRUE
         IN  Cardinality(f[v]) + FileCount(f, vs \ {v})

Init ==
    /\ api \in ApiShapes
    /\ fs = [v \in Voices |-> {}]
    /\ tts_instances = EmptyDict
    /\ writeLog = [v \in Voices |-> <<>>]
    /\ req = [r \in Requests |-> IdleRequest]
    /\ sent = NoExchange

(* --------------------------- environment ------------------------------- *)

\* A model file is provisioned into a candidate directory.
ProvisionFile ==
    /\ FileCount(fs, Voices) < MaxFiles
    /\ \E v \in Voices, d \in Dirs :
        /\ d \notin fs[v]
        /\ fs' = [fs EXCEPT ![v] = @ \cup {d}]
        /\ req' = [r \in Requests |->
                     IF req[r].pc = "probe" /\ req[r].voice = v
                     THEN [req[r] EXCEPT !.noFile = FALSE]
                     ELSE req[r]]
    /\ sent' = NoExchange
    /\ UNCHANGED <<api, tts_instances, writeLog>>

(* --------------------------- a request --------------------------------- *)

\* The handler of request r returns resp, its locals being q.
Return(r, q, resp) ==
    /\ sent' = Exchange(r, q, resp)
    /\ req' = [req EXCEPT ![r] = DoneRequest]

\* Lines 74-122, from the return of get_tts_instance with inst: no shared
\* state is touched any more, so the rest of the handler is one step.  The
\* engine delivers any number of chunks before failing, or all of them, and
\* the WAV writer may fail; without a handle neither is called.
Respond(r, inst) ==
    \E k \in IF Truthy(inst) THEN 0..Len(PcmChunks(req[r].text))
                             ELSE {Len(PcmChunks(req[r].text))},
       fault \in IF Truthy(inst) THEN {"none", "wave"} ELSE {"none"} :
        Return(r, [req[r] EXCEPT !.tts_instance = inst],
               HandlerTail(api, req[r].text, req[r].voice, inst, k, fault))

\* Lines 68-72: the request arrives, its parameters are read and the text is
\* validated.  Requests are numbered in their order of arrival.
Receive(r) ==
    /\ req[r].pc = "idle"
    /\ \A q \in Requests : q < r => req[q].pc # "idle"
    /\ \E a \in WellFormedArgs :
        LET t == ArgsGet(a, "text", PyNone)
            v == ArgsGet(a, "voice", DefaultVoice)
            q == [req[r] EXCEPT !.text = t, !.voice = v,
                                !.cachedAtStart = (v \in DOMAIN tts_instances)]
        IN  IF NotText(t)
            THEN Return(r, q, JsonError(400, <<"Text to synthesize is required.">>))
            ELSE /\ sent' = NoExchange
                 /\ req' = [req EXCEPT ![r] = [q EXCEPT !.pc = "lookup"]]
    /\ UNCHANGED <<api, fs, tts_instances, writeLog>>

\* Line 29: `if voice not in tts_instances`.
CacheCheck(r) ==
    /\ req[r].pc = "lookup"
    /\ req' = [req EXCEPT ![r] =
                 IF InCache(tts_instances, req[r].voice)
                 THEN [@ EXCEPT !.pc = "return"]
                 ELSE [@ EXCEPT !.pc = "probe", !.probe = 1,
                                !.noFile = (fs[req[r].voice] = {})]]
    /\ sent' = NoExchange
    /\ UNCHANGED <<api, fs, tts_instances, writeLog>>

\* What becomes of an exception raised at a line of get_tts_instance:
\* `return None` from its except clause and the handler goes on, or the
\* exception leaves get_tts_instance and the handler.
LoaderRaise(r, line) ==
    IF ExceptClause(line) = "return_none"
    THEN Respond(r, NoneHandle)
    ELSE Return(r, req[r], UncaughtError)

\* Lines 40-48: one iteration of the loop over possible_paths, path.exists(),
\* and after the last path the `if not model_path: return None`.
Probe(r) ==
    /\ req[r].pc = "probe"
    /\ \E raises \in BOOLEAN :
        IF raises
        THEN /\ LoaderRaise(r, 41)
             /\ tts_instances' = LoadFailed(tts_instances, req[r].voice)
        ELSE IF possible_paths[req[r].probe] \in fs[req[r].voice]
        THEN /\ req' = [req EXCEPT ![r] =
                          [@ EXCEPT !.pc = "load", !.probe = 0,
                                    !.model_path = possible_paths[req[r].probe]]]
             /\ sent' = NoExchange
             /\ UNCHANGED tts_instances
        ELSE IF req[r].probe < Len(possible_paths)
        THEN /\ req' = [req EXCEPT ![r] = [@ EXCEPT !.probe = @ + 1]]
             /\ sent' = NoExchange
             /\ UNCHANGED tts_instances
        ELSE /\ Respond(r, NoneHandle)
             /\ UNCHANGED tts_instances
    /\ UNCHANGED <<api, fs, writeLog>>

\* Line 50: tts_instances[voice] = PiperVoice.load(model_path).  The load
\* may raise (a corrupt model, a missing config file).
LoadAndStore(r) ==
    /\ req[r].pc = "load"
    /\ \E ok \in BOOLEAN :
        IF ok
        THEN /\ tts_instances' = CacheStore(tts_instances, req[r].voice,
                                            PiperVoiceLoad(r, req[r].voice))
             /\ writeLog' = [writeLog EXCEPT ![req[r].voice] = Append(@, r)]
             /\ req' = [req EXCEPT ![r] = [@ EXCEPT !.pc = "return",
                                                    !.model_path = PyNone]]
             /\ sent' = NoExchange
        ELSE /\ LoaderRaise(r, 50)
             /\ tts_instances' = LoadFailed(tts_instances, req[r].voice)
             /\ UNCHANGED writeLog
    /\ UNCHANGED <<api, fs>>

\* Line 54, `return tts_instances[voice]`, and the rest of the handler.  On a
\* key the dict does not hold the subscript raises KeyError.
ReturnInstance(r) ==
    /\ req[r].pc = "return"
    /\ IF req[r].voice \in DOMAIN tts_instances
       THEN Respond(r, CacheRead(tts_instances, req[r].voice))
       ELSE LoaderRaise(r, 54)
    /\ UNCHANGED <<api, fs, tts_instances, writeLog>>

Next ==
    \/ ProvisionFile
    \/ \E r \in Requests : Receive(r)
    \/ \E r \in Requests : CacheCheck(r)
    \/ \E r \in Requests : Probe(r)
    \/ \E r \in Requests : LoadAndStore(r)
    \/ \E r \in Requests : ReturnInstance(r)

Spec == Init /\ [][Next]_vars

(* ======================================================================= *)
(* The claims.  An exchange is the request and the response of the step    *)
(* that has just completed a request; every response sent is, in some      *)
(* reachable state, the exchange `sent`.                                   *)
(* ======================================================================= *)

Completed == sent.id # 0

\* The request of the exchange carried a non-empty text.
HasText == sent.text \notin {PyNone, ""}

\* The request of the exchange obtained a model handle.
GotHandle == sent.tts_instance # NoneHandle

\* The response is the JSON error the handler makes of an exception raised by
\* the environment: the engine failing, or the WAV writer failing.
EnvironmentFailed ==
    /\ Len(sent.response.error) = 2
    /\ sent.response.error[2] \in {"EngineError", "wave.Error"}

IsJsonError(resp) ==
    /\ resp.mimetype = "application/json"
    /\ resp.error # <<>>
    /\ resp.wav = NoWav

RECURSIVE SeqRange(_)
SeqRange(q) == IF q = <<>> THEN {} ELSE {Head(q)} \cup SeqRange(Tail(q))

\* The position of x in the sequence q, 0 when x is not in it.
IndexOf(q, x) ==
    IF x \in SeqRange(q) THEN CHOOSE i \in 1..Len(q) : q[i] = x ELSE 0

\* The ids of the handles stored so far, for any voice.
Stored == UNION {SeqRange(writeLog[v]) : v \in Voices}

\* C1: a request with non-empty text whose voice has a model file that is
\* found and loads is answered 200 with an audio/wav attachment named
\* output.wav, whose WAV header declares 1 channel, 16 bits per sample and
\* the sample rate of the loaded model's config.  (Read in the claim's
\* favour: the engine and the WAV writer do not fail.)
C1_WavForLoadedVoice ==
    (Completed /\ HasText /\ GotHandle /\ ~EnvironmentFailed)
    => /\ sent.response.status = 200
       /\ sent.response.mimetype = "audio/wav"
       /\ sent.response.as_attachment
       /\ sent.response.download_name = "output.wav"
       /\ sent.response.wav.riff = "RIFF"
       /\ sent.response.wav.nchannels = 1
       /\ sent.response.wav.bits_per_sample = 16
       /\ sent.response.wav.framerate = sent.tts_instance.sample_rate

\* C2: a request whose text is absent or empty is answered 400 with a JSON
\* body holding an error, whatever its voice.
C2_MissingTextIs400 ==
    (Completed /\ sent.text \in {PyNone, ""})
    => /\ sent.response.status = 400
       /\ IsJsonError(sent.response)

\* C2, its case: an empty text for a voice that is cached is answered 400.
C2_Witness ==
    /\ Completed
    /\ sent.text = ""
    /\ sent.cachedAtStart
    /\ sent.response.status = 400

\* C3: a request with non-empty text that misses the cache and whose
\* <voice>.onnx is in none of the three candidate directories is answered 500
\* with a JSON body holding an error.
C3_NoModelFileIs500 ==
    (Completed /\ HasText /\ sent.noFile)
    => /\ sent.response.status = 500
       /\ IsJsonError(sent.response)

\* C3, its case: such a request has been answered.
C3_Witness ==
    /\ Completed
    /\ HasText
    /\ sent.noFile
    /\ sent.response.status = 500

\* C4: every request ends with one response, which is either a complete WAV
\* (200, the whole PCM output of the engine behind a consistent header) or a
\* JSON error (400 or 500): no exception leaves the handler and no partial
\* audio is sent.
C4_WavOrJsonError ==
    Completed =>
        /\ req[sent.id].pc = "done"
        /\ \/ /\ sent.response.status = 200
              /\ sent.response.mimetype = "audio/wav"
              /\ sent.response.error = <<>>
              /\ sent.response.wav.data_bytes
                   = SumFirst(PcmChunks(sent.text), Len(PcmChunks(sent.text)))
              /\ sent.response.wav.nframes * sent.response.wav.block_align
                   = sent.response.wav.data_bytes
           \/ /\ sent.response.status \in {400, 500}
              /\ IsJsonError(sent.response)

\* C4, its case: the engine or the WAV writer raised and the request was
\* answered with the JSON error made of the exception.
C4_Witness ==
    /\ Completed
    /\ GotHandle
    /\ EnvironmentFailed
    /\ sent.response.status = 500

\* C5: a request that arrives when its voice is cached is a cache hit: it
\* never probes the filesystem and never calls the loader, and it is given
\* the handle the cache holds, which another request loaded.
C5_CachedVoiceIsHit ==
    /\ \A r \in Requests : req[r].cachedAtStart => req[r].pc \in {"lookup", "return"}
    /\ (Completed /\ HasText /\ sent.cachedAtStart)
       => /\ GotHandle
          /\ sent.voice \in DOMAIN tts_instances
          /\ sent.tts_instance = tts_instances[sent.voice]
          /\ sent.tts_instance.id # sent.id
          /\ sent.id \notin Stored

\* C5, its case: a request that arrived after the load of its voice has been
\* served from the cache.
C5_Witness ==
    /\ Completed
    /\ HasText
    /\ sent.cachedAtStart
    /\ sent.response.status = 200

\* C6: no step removes a voice from the cache.
C6_CacheOnlyGrows ==
    [][DOMAIN tts_instances \subseteq DOMAIN tts_instances']_vars

\* C6, its case: a request has failed to load a voice that another request
\* has put in the cache.
C6_Witness ==
    /\ Completed
    /\ ~GotHandle
    /\ sent.voice \in DOMAIN tts_instances

\* C7: with a handle of any of the three capability shapes the synthesis
\* completes and the request is answered 200 with WAV audio.  (Read in the
\* claim's favour: the engine and the WAV writer do not fail.)
C7_EveryShapeSynthesizes ==
    (Completed /\ GotHandle /\ ~EnvironmentFailed)
    => /\ sent.response.status = 200
       /\ sent.response.wav.riff = "RIFF"

\* C8: the cache holds, for every voice that has been loaded, exactly the
\* handle whose store happened last, and nothing for any other voice.
C8_LastWriteWins ==
    \A v \in Voices :
        IF writeLog[v] = <<>>
        THEN v \notin DOMAIN tts_instances
        ELSE /\ v \in DOMAIN tts_instances
             /\ tts_instances[v] # NoneHandle
             /\ tts_instances[v].id = writeLog[v][Len(writeLog[v])]

\* C8, its case: two requests have both missed the cache for the same voice,
\* both loaded it, and all requests have finished.
C8_Witness ==
    /\ \E v \in Voices : Len(writeLog[v]) >= 2
    /\ \A r \in Requests : req[r].pc = "done"

\* C9, as claimed: a request that loaded a handle synthesizes with the handle
\* it loaded.
C9_UsesOwnHandle ==
    (Completed /\ sent.id \in Stored) => sent.tts_instance.id = sent.id

\* C9, amended: a request that loaded a handle synthesizes with the handle
\* the cache holds when it reads the cache back (line 54): a handle for its
\* voice, its own or one that a racing request stored after it.
C9_UsesOwnOrLaterHandle ==
    (Completed /\ sent.id \in Stored)
    => /\ GotHandle
       /\ sent.tts_instance.voice = sent.voice
       /\ IndexOf(writeLog[sent.voice], sent.id) >= 1
       /\ IndexOf(writeLog[sent.voice], sent.tts_instance.id)
            >= IndexOf(writeLog[sent.voice], sent.id)

\* C9, its case: a request that loaded a handle has synthesized with the
\* handle of a racing request.
C9_Witness ==
    /\ Completed
    /\ sent.id \in Stored
    /\ GotHandle
    /\ sent.tts_instance.id # sent.id

====
